---- MODULE Spec2Model ----
(***************************************************************************)
(* Knowledge service of kAIs: scope visibility (store.py is_visible), the  *)
(* per-graph fact store (store.py GraphitiKnowledgeStore) and the          *)
(* multi-graph router (router.py KnowledgeGraphRouter).                    *)
(*                                                                         *)
(* Strings whose characters matter (fact content, tags, queries) are       *)
(* sequences of one-character strings; identifiers that are only compared  *)
(* for equality (graph ids, realm ids, ...) are TLA+ strings.  Confidence  *)
(* is counted in tenths (0..10 for the interval [0, 1]).                   *)
(***************************************************************************)
EXTENDS Integers, Sequences, FiniteSets, TLC

VARIABLES
    graphs,          \* KnowledgeGraphRouter._graphs: graph id -> RegisteredGraph
    fallback_store,  \* a store built directly, GraphitiKnowledgeStore(graphiti_client)
    episodes,        \* what the backend (graphiti client) received through add_episode
    clock,           \* number of datetime.now() readings so far
    uuids,           \* number of uuid4() draws so far
    invalidated,     \* ids of held facts on which an invalidate has completed
    last,            \* the last call made, its arguments and its outcome
    probe,           \* a pair of scopes and the is_visible answer for it
    dropped,         \* ids of the facts a store held when the router let go of it
    inflight         \* the store calls suspended at an await of the backend

vars == <<graphs, fallback_store, episodes, clock, uuids, invalidated, last, probe,
          dropped, inflight>>

\* Python's None
NULL == "None"

-----------------------------------------------------------------------------
(* Bounds of the model *)

\* datetime.now() is read at most MaxClock times (one reading per add_fact and
\* per invalidate of a held fact), which also bounds the number of facts.
MaxClock == 2

-----------------------------------------------------------------------------
(* models.py *)

ScopeLevel == {"platform", "realm", "formation", "cell"}

KnowledgeScope(level, realm_id, formation_id, cell_id) ==
    [level |-> level, realm_id |-> realm_id,
     formation_id |-> formation_id, cell_id |-> cell_id]

\* Field(ge=0, le=1) on confidence, in tenths
ConfidenceOk(confidence) == confidence >= 0 /\ confidence <= 10

\* valid_until: datetime | None = None.  Clock readings are 1, 2, ...; the
\* absent timestamp is written 0.
NoTime == 0

Fact(id, req, now) ==
    [id |-> id, content |-> req.content, scope |-> req.scope,
     source |-> req.source, confidence |-> req.confidence,
     valid_from |-> now, valid_until |-> NoTime, tags |-> req.tags]

\* the requests, as the caller builds them
AddFactRequest(content, scope, source, confidence, tags) ==
    [content |-> content, scope |-> scope, source |-> source,
     confidence |-> confidence, tags |-> tags]

SearchRequest(query, scope, max_results, min_confidence, include_invalidated) ==
    [query |-> query, scope |-> scope, max_results |-> max_results,
     min_confidence |-> min_confidence,
     include_invalidated |-> include_invalidated]

\* a validation that also wants a realm_id on every scope below platform
AddFactRequestValid_ChecksScope(req) ==
    /\ req.scope.level \in ScopeLevel
    /\ ConfidenceOk(req.confidence)
    /\ req.scope.level # "platform" => req.scope.realm_id # NULL

\* what pydantic checks when an AddFactRequest is built: the level is one of
\* the enum's and the confidence is in range; the identifiers of the scope
\* are optional, whatever the level
AddFactRequestValid(req) ==
    /\ req.scope.level \in ScopeLevel
    /\ ConfidenceOk(req.confidence)

-----------------------------------------------------------------------------
(* Python built-ins used by the store *)

\* str.lower(), on the letters the model uses
LowerChar(c) ==
    CASE c = "M" -> "m"
      [] c = "K" -> "k"
      [] c = "X" -> "x"
      [] OTHER -> c

lower(s) == [i \in 1..Len(s) |-> LowerChar(s[i])]

\* str.split() with no argument: the maximal runs of non-blank characters
RECURSIVE SplitFrom(_, _, _)
SplitFrom(s, i, word) ==
    IF i > Len(s)
    THEN IF word = <<>> THEN <<>> ELSE <<word>>
    ELSE IF s[i] = " "
         THEN (IF word = <<>> THEN <<>> ELSE <<word>>) \o SplitFrom(s, i + 1, <<>>)
         ELSE SplitFrom(s, i + 1, Append(word, s[i]))

split(s) == SplitFrom(s, 1, <<>>)

\* " ".join(list)
RECURSIVE join(_)
join(list) ==
    IF list = <<>> THEN <<>>
    ELSE IF Len(list) = 1 THEN list[1]
    ELSE list[1] \o <<" ">> \o join(Tail(list))

\* `w in s` taken as: w is one of the blank-separated words of s
contains_WholeWord(s, w) ==
    \E i \in 1..Len(split(s)) : split(s)[i] = w

\* `w in s` on strings: w is a contiguous substring of s
contains(s, w) ==
    \E i \in 0..(Len(s) - Len(w)) : SubSeq(s, i + 1, i + Len(w)) = w

\* seq[:n], negative n counted from the end
Slice(seq, n) ==
    IF n >= 0
    THEN SubSeq(seq, 1, IF n < Len(seq) THEN n ELSE Len(seq))
    ELSE SubSeq(seq, 1, IF Len(seq) + n > 0 THEN Len(seq) + n ELSE 0)

\* list.index(x)
Index(seq, x) == CHOOSE i \in 1..Len(seq) : seq[i] = x

\* an insertion that puts a fact in front of the facts of equal confidence
RECURSIVE InsertByConfidence_BeforeEqual(_, _)
InsertByConfidence_BeforeEqual(sorted, f) ==
    IF sorted = <<>> THEN <<f>>
    ELSE IF sorted[1].confidence > f.confidence
         THEN <<sorted[1]>> \o InsertByConfidence_BeforeEqual(Tail(sorted), f)
         ELSE <<f>> \o sorted

\* list.sort(key=lambda f: f.confidence, reverse=True): stable, so each fact
\* goes behind the facts already placed whose confidence is not lower
RECURSIVE InsertByConfidence(_, _)
InsertByConfidence(sorted, f) ==
    IF sorted = <<>> THEN <<f>>
    ELSE IF sorted[1].confidence >= f.confidence
         THEN <<sorted[1]>> \o InsertByConfidence(Tail(sorted), f)
         ELSE <<f>> \o sorted

RECURSIVE SortFrom(_, _, _)
SortFrom(seq, i, sorted) ==
    IF i > Len(seq) THEN sorted
    ELSE SortFrom(seq, i + 1, InsertByConfidence(sorted, seq[i]))

SortByConfidence(seq) == SortFrom(seq, 1, <<>>)

-----------------------------------------------------------------------------
(* store.py: scope visibility *)

SCOPE_ORDER == <<"platform", "realm", "formation", "cell">>

\* is_visible with the levels compared the wrong way round
is_visible_LevelsSwapped(fact_scope, query_scope) ==
    LET fact_level == Index(SCOPE_ORDER, fact_scope.level)
        query_level == Index(SCOPE_ORDER, query_scope.level)
    IN  IF fact_level > query_level THEN TRUE
        ELSE IF fact_level < query_level THEN FALSE
        ELSE IF fact_scope.level = "platform" THEN TRUE
        ELSE IF fact_scope.level = "realm"
             THEN fact_scope.realm_id = query_scope.realm_id
        ELSE IF fact_scope.level = "formation"
             THEN /\ fact_scope.realm_id = query_scope.realm_id
                  /\ fact_scope.formation_id = query_scope.formation_id
        ELSE /\ fact_scope.realm_id = query_scope.realm_id
             /\ fact_scope.formation_id = query_scope.formation_id
             /\ fact_scope.cell_id = query_scope.cell_id

\* is_visible with a formation compared by formation_id alone
is_visible_FormationOnly(fact_scope, query_scope) ==
    LET fact_level == Index(SCOPE_ORDER, fact_scope.level)
        query_level == Index(SCOPE_ORDER, query_scope.level)
    IN  IF fact_level < query_level THEN TRUE
        ELSE IF fact_level > query_level THEN FALSE
        ELSE IF fact_scope.level = "platform" THEN TRUE
        ELSE IF fact_scope.level = "realm"
             THEN fact_scope.realm_id = query_scope.realm_id
        ELSE IF fact_scope.level = "formation"
             THEN fact_scope.formation_id = query_scope.formation_id
        ELSE /\ fact_scope.realm_id = query_scope.realm_id
             /\ fact_scope.formation_id = query_scope.formation_id
             /\ fact_scope.cell_id = query_scope.cell_id

is_visible(fact_scope, query_scope) ==
    LET fact_level == Index(SCOPE_ORDER, fact_scope.level)
        query_level == Index(SCOPE_ORDER, query_scope.level)
    IN  IF fact_level < query_level THEN TRUE
        ELSE IF fact_level > query_level THEN FALSE
        ELSE IF fact_scope.level = "platform" THEN TRUE
        ELSE IF fact_scope.level = "realm"
             THEN fact_scope.realm_id = query_scope.realm_id
        ELSE IF fact_scope.level = "formation"
             THEN /\ fact_scope.realm_id = query_scope.realm_id
                  /\ fact_scope.formation_id = query_scope.formation_id
        ELSE IF fact_scope.level = "cell"
             THEN /\ fact_scope.realm_id = query_scope.realm_id
                  /\ fact_scope.formation_id = query_scope.formation_id
                  /\ fact_scope.cell_id = query_scope.cell_id
        ELSE FALSE

-----------------------------------------------------------------------------
(* store.py: GraphitiKnowledgeStore *)

\* truth value of an optional string: None and "" are false
Truthy(x) == x # NULL /\ x # ""

\* ":".join(parts)
RECURSIVE JoinColon(_)
JoinColon(parts) ==
    IF Len(parts) <= 1 THEN parts
    ELSE <<parts[1], ":">> \o JoinColon(Tail(parts))

_scope_group(scope) ==
    JoinColon(<<scope.level>>
              \o (IF Truthy(scope.realm_id) THEN <<scope.realm_id>> ELSE <<>>)
              \o (IF Truthy(scope.formation_id) THEN <<scope.formation_id>> ELSE <<>>)
              \o (IF Truthy(scope.cell_id) THEN <<scope.cell_id>> ELSE <<>>))

\* an f-string prints None as "None", which is how NULL is written here
_visible_groups(scope) ==
    <<  <<"platform">>  >>
    \o (IF Truthy(scope.realm_id)
        THEN << <<"realm", ":", scope.realm_id>> >> ELSE <<>>)
    \o (IF Truthy(scope.formation_id)
        THEN << <<"formation", ":", scope.realm_id, ":", scope.formation_id>> >>
        ELSE <<>>)
    \o (IF Truthy(scope.cell_id)
        THEN << <<"cell", ":", scope.realm_id, ":", scope.formation_id,
                  ":", scope.cell_id>> >>
        ELSE <<>>)

_map_graphiti_results(results, req) == <<>>

\* __init__
NewStore(graphiti_client) == [graphiti |-> graphiti_client, facts |-> <<>>]

\* The outcome of a store call: the store and the backend's episodes after
\* it, what it returned (a fact id, a list of facts, or <<>> for nothing) and
\* the exception it raised (NULL: none).
Outcome(store, eps, returned, raised) ==
    [store |-> store, episodes |-> eps, returned |-> returned, raised |-> raised]

\* add_fact; backend_ok: the backend's add_episode returns rather than raises
StoreAddFact(store, eps, req, fact_id, now, backend_ok) ==
    LET fact == Fact(fact_id, req, now)
        added == [store EXCEPT !.facts = Append(@, fact)]
    IN  IF store.graphiti
        THEN IF backend_ok
             THEN Outcome(added,
                          Append(eps, [name |-> <<"fact-", fact_id>>,
                                       group_id |-> _scope_group(req.scope)]),
                          fact_id, NULL)
             ELSE Outcome(store, eps, <<>>, "BackendError")
        ELSE Outcome(added, eps, fact_id, NULL)

\* the filter without its test of valid_until
Matches_IgnoresValidity(fact, req) ==
    LET words == split(lower(req.query))
        content_lower == lower(fact.content)
    IN  /\ ~(fact.confidence < req.min_confidence)
        /\ is_visible(fact.scope, req.scope)
        /\ \E i \in 1..Len(words) :
              \/ contains(content_lower, words[i])
              \/ contains(lower(join(fact.tags)), words[i])

\* the filter of the in-memory fallback, lines 79-86
Matches(fact, req) ==
    LET words == split(lower(req.query))
        content_lower == lower(fact.content)
    IN  /\ ~(~req.include_invalidated /\ fact.valid_until # NoTime)
        /\ ~(fact.confidence < req.min_confidence)
        /\ is_visible(fact.scope, req.scope)
        /\ \E i \in 1..Len(words) :
              \/ contains(content_lower, words[i])
              \/ contains(lower(join(fact.tags)), words[i])

\* search; backend_ok: the backend's search returns rather than raises
StoreSearch(store, eps, req, backend_ok) ==
    IF store.graphiti
    THEN IF backend_ok
         THEN Outcome(store, eps, _map_graphiti_results(<<>>, req), NULL)
         ELSE Outcome(store, eps, <<>>, "BackendError")
    ELSE LET Test(fact) == Matches(fact, req)
             matches == SelectSeq(store.facts, Test)
         IN  Outcome(store, eps,
                     Slice(SortByConfidence(matches), req.max_results), NULL)

Holds(store, fact_id) == \E i \in 1..Len(store.facts) : store.facts[i].id = fact_id

\* invalidate that removes the fact from the map
StoreInvalidate_Deletes(store, eps, fact_id, now) ==
    LET Other(fact) == fact.id # fact_id
    IN  Outcome([store EXCEPT !.facts = SelectSeq(@, Other)], eps, <<>>, NULL)

\* invalidate
StoreInvalidate(store, eps, fact_id, now) ==
    Outcome([store EXCEPT !.facts =
                [i \in 1..Len(@) |->
                    IF @[i].id = fact_id
                    THEN [@[i] EXCEPT !.valid_until = now]
                    ELSE @[i]]],
            eps, <<>>, NULL)

-----------------------------------------------------------------------------
(* router.py: KnowledgeGraphRouter.  _graphs is a dict: graphs is a function *)
(* whose domain is the set of registered graph ids.                          *)

RegisteredGraph(graph_id, store, parent_chain, inherit) ==
    [graph_id |-> graph_id, store |-> store,
     parent_chain |-> parent_chain, inherit |-> inherit]

\* dict[key] = value and dict.pop(key, None)
DictSet(d, key, value) ==
    [k \in DOMAIN d \cup {key} |-> IF k = key THEN value ELSE d[k]]

DictPop(d, key) == [k \in DOMAIN d \ {key} |-> d[k]]

Registered(graph_id) == graph_id \in DOMAIN graphs

\* get_store, where it returns a store (it returns None iff ~Registered)
get_store(graph_id) == graphs[graph_id].store

\* get_search_chain that also follows the parent_chain of each parent
get_search_chain_WithGrandparents(graph_id) ==
    IF ~Registered(graph_id) THEN <<>>
    ELSE LET entry == graphs[graph_id]
             IsRegistered(id) == Registered(id)
             parents == SelectSeq(entry.parent_chain, IsRegistered)
             ParentsOf(i) == SelectSeq(graphs[parents[i]].parent_chain, IsRegistered)
             grandparents ==
                 IF parents = <<>> THEN <<>>
                 ELSE ParentsOf(1) \o (IF Len(parents) > 1 THEN ParentsOf(2) ELSE <<>>)
             ids == parents \o grandparents
         IN  IF ~entry.inherit THEN <<entry>>
             ELSE <<entry>> \o [i \in 1..Len(ids) |-> graphs[ids[i]]]

\* get_search_chain that stops at the first parent that is not registered
get_search_chain_StopsAtUnknown(graph_id) ==
    IF ~Registered(graph_id) THEN <<>>
    ELSE LET entry == graphs[graph_id]
             pc == entry.parent_chain
             Known(n) == \A i \in 1..n : Registered(pc[i])
             parents == SubSeq(pc, 1, IF \E n \in 0..Len(pc) : ~Known(n)
                                      THEN (CHOOSE n \in 0..Len(pc) :
                                                Known(n) /\ ~Known(n + 1))
                                      ELSE Len(pc))
         IN  IF ~entry.inherit THEN <<entry>>
             ELSE <<entry>> \o [i \in 1..Len(parents) |-> graphs[parents[i]]]

\* get_search_chain without its test of the inherit flag
get_search_chain_IgnoresInherit(graph_id) ==
    IF ~Registered(graph_id) THEN <<>>
    ELSE LET entry == graphs[graph_id]
             IsRegistered(parent_id) == Registered(parent_id)
             parents == SelectSeq(entry.parent_chain, IsRegistered)
         IN  <<entry>> \o [i \in 1..Len(parents) |-> graphs[parents[i]]]

get_search_chain(graph_id) ==
    IF ~Registered(graph_id) THEN <<>>
    ELSE LET entry == graphs[graph_id]
             IsRegistered(parent_id) == Registered(parent_id)
             parents == SelectSeq(entry.parent_chain, IsRegistered)
         IN  IF ~entry.inherit THEN <<entry>>
             ELSE <<entry>> \o [i \in 1..Len(parents) |-> graphs[parents[i]]]

\* all_results: the stores' answers, concatenated in chain order
RECURSIVE AllResults(_, _)
AllResults(chain, req) ==
    IF chain = <<>> THEN <<>>
    ELSE StoreSearch(chain[1].store, episodes, req, TRUE).returned
         \o AllResults(Tail(chain), req)

\* the loop over all_results without its test of seen_content
RECURSIVE Unique_KeepsDuplicates(_, _, _)
Unique_KeepsDuplicates(all_results, i, seen) ==
    IF i > Len(all_results) THEN <<>>
    ELSE <<all_results[i]>>
         \o Unique_KeepsDuplicates(all_results, i + 1, seen \cup {all_results[i].content})

\* the loop over all_results that keeps the first fact of each content
RECURSIVE Unique(_, _, _)
Unique(all_results, i, seen) ==
    IF i > Len(all_results) THEN <<>>
    ELSE IF all_results[i].content \notin seen
         THEN <<all_results[i]>>
              \o Unique(all_results, i + 1, seen \cup {all_results[i].content})
         ELSE Unique(all_results, i + 1, seen)

\* search: what it returns
RouterSearchResult(graph_id, req) ==
    LET chain == get_search_chain(graph_id)
    IN  IF chain = <<>> THEN <<>>
        ELSE Slice(SortByConfidence(Unique(AllResults(chain, req), 1, {})),
                   req.max_results)

UnknownGraph == "ValueError: Unknown knowledge graph"

-----------------------------------------------------------------------------
(* The calls the model makes *)

GraphIds == {"platform-kg", "trading-kg"}

\* register_graph calls: (graph_id, parent_chain, inherit), after the fixture
\* of tests/test_router.py, the child registered with either inherit flag
Registrations ==
    { <<"platform-kg", <<>>, TRUE>>,
      <<"trading-kg", <<"platform-kg">>, TRUE>>,
      <<"trading-kg", <<"platform-kg">>, FALSE>> }

Platform == KnowledgeScope("platform", NULL, NULL, NULL)
RealmTrading == KnowledgeScope("realm", "trading", NULL, NULL)
\* a realm scope without its realm_id
RealmNoId == KnowledgeScope("realm", NULL, NULL, NULL)

UserInput == [type |-> "user_input", mission_id |-> NULL, experiment_id |-> NULL]

\* "Mk x" and "mk"
ContentMkX == <<"M", "k", " ", "x">>
ContentMk == <<"m", "k">>

\* requests that pydantic accepts
ValidAddInputs ==
    { AddFactRequest(ContentMkX, Platform, UserInput, 9, <<>>),
      AddFactRequest(ContentMk, Platform, UserInput, 9, <<>>),
      AddFactRequest(ContentMkX, RealmTrading, UserInput, 5, <<>>),
      AddFactRequest(ContentMk, RealmNoId, UserInput, 5, << <<"X">> >>) }

\* and one it rejects: a confidence of 1.1
AddInputs ==
    ValidAddInputs \cup { AddFactRequest(ContentMk, Platform, UserInput, 11, <<>>) }

QueryScopes == { Platform, RealmTrading }
MaxResults == { -1, 0, 1, 20 }

\* the searches made on a store of its own
SearchInputs ==
    { SearchRequest(q, sc, n, c, inv) :
        q \in { <<"m", "k">>, <<"X">> }, sc \in QueryScopes, n \in MaxResults,
        c \in { 0, 7 }, inv \in BOOLEAN }

\* the searches made through the router
RouterSearchInputs ==
    { SearchRequest(<<"m", "k">>, sc, n, 0, inv) :
        sc \in QueryScopes, n \in MaxResults, inv \in BOOLEAN }

FactIds == 1..MaxClock

Call(op, graph, req, fact_id, returned_id, result, error) ==
    [op |-> op, graph |-> graph, req |-> req, fact_id |-> fact_id,
     returned_id |-> returned_id, result |-> result, error |-> error]

NoProbe ==
    [fact_scope |-> Platform, query_scope |-> Platform,
     called |-> FALSE, result |-> FALSE]

\* a router with nothing registered
Init ==
    /\ graphs = << >>
    /\ fallback_store = NewStore(FALSE)
    /\ episodes = <<>>
    /\ clock = 0
    /\ uuids = 0
    /\ invalidated = {}
    /\ dropped = {}
    /\ inflight = {}
    /\ last = Call("init", NULL, <<>>, 0, 0, <<>>, NULL)
    /\ probe = NoProbe

\* the ids of the facts in the store registered under a graph id, if any
HeldIds(graph_id) ==
    IF Registered(graph_id)
    THEN { get_store(graph_id).facts[i].id : i \in 1..Len(get_store(graph_id).facts) }
    ELSE {}

\* register_graph that keeps the store of a graph that is already registered
RegisterGraph_KeepsStore(graph_id, parent_chain, inherit) ==
    /\ graphs' = DictSet(graphs, graph_id,
                         RegisteredGraph(graph_id,
                                         IF Registered(graph_id) THEN get_store(graph_id)
                                                                 ELSE NewStore(FALSE),
                                         parent_chain, inherit))
    /\ dropped' = dropped \cup HeldIds(graph_id)
    /\ last' = Call("register_graph", graph_id, <<>>, 0, 0, <<>>, NULL)
    /\ UNCHANGED <<fallback_store, episodes, clock, uuids, invalidated, probe, inflight>>

\* register_graph (endpoint and database are not used)
RegisterGraph(graph_id, parent_chain, inherit) ==
    /\ graphs' = DictSet(graphs, graph_id,
                         RegisteredGraph(graph_id, NewStore(FALSE), parent_chain, inherit))
    /\ dropped' = dropped \cup HeldIds(graph_id)
    /\ last' = Call("register_graph", graph_id, <<>>, 0, 0, <<>>, NULL)
    /\ UNCHANGED <<fallback_store, episodes, clock, uuids, invalidated, probe, inflight>>

\* unregister_graph
UnregisterGraph(graph_id) ==
    /\ graphs' = DictPop(graphs, graph_id)
    /\ dropped' = dropped \cup HeldIds(graph_id)
    /\ last' = Call("unregister_graph", graph_id, <<>>, 0, 0, <<>>, NULL)
    /\ UNCHANGED <<fallback_store, episodes, clock, uuids, invalidated, probe, inflight>>

\* the caller builds an AddFactRequest and calls add_fact on the store
AddFact(req, backend_ok) ==
    IF ~AddFactRequestValid(req)
    THEN /\ last' = Call("store.add_fact", NULL, <<req>>, 0, 0, <<>>, "ValidationError")
         /\ UNCHANGED <<graphs, fallback_store, episodes, clock, uuids, invalidated, probe, dropped, inflight>>
    ELSE /\ clock < MaxClock
         /\ LET out == StoreAddFact(fallback_store, episodes, req,
                                    uuids + 1, clock + 1, backend_ok)
            IN  /\ fallback_store' = out.store
                /\ episodes' = out.episodes
                /\ last' = Call("store.add_fact", NULL, <<req>>, 0,
                                IF out.raised = NULL THEN out.returned ELSE 0,
                                <<>>, out.raised)
         /\ uuids' = uuids + 1
         /\ clock' = clock + 1
         /\ UNCHANGED <<graphs, invalidated, probe, dropped, inflight>>

\* search on the store
Search(req, backend_ok) ==
    LET out == StoreSearch(fallback_store, episodes, req, backend_ok)
    IN  /\ last' = Call("store.search", NULL, <<req>>, 0, 0, out.returned, out.raised)
        /\ UNCHANGED <<graphs, fallback_store, episodes, clock, uuids, invalidated, probe, dropped, inflight>>

\* invalidate on the store, while the clock is below max_clock
InvalidateWithin(max_clock, fact_id) ==
    IF Holds(fallback_store, fact_id)
    THEN /\ clock < max_clock
         /\ fallback_store' =
                StoreInvalidate(fallback_store, episodes, fact_id, clock + 1).store
         /\ clock' = clock + 1
         /\ invalidated' = invalidated \cup {fact_id}
         /\ last' = Call("store.invalidate", NULL, <<>>, fact_id, 0, <<>>, NULL)
         /\ UNCHANGED <<graphs, episodes, uuids, probe, dropped, inflight>>
    ELSE /\ fallback_store' =
                StoreInvalidate(fallback_store, episodes, fact_id, clock + 1).store
         /\ last' = Call("store.invalidate", NULL, <<>>, fact_id, 0, <<>>, NULL)
         /\ UNCHANGED <<graphs, episodes, clock, uuids, invalidated, probe, dropped, inflight>>

\* invalidate on the store
Invalidate(fact_id) == InvalidateWithin(MaxClock, fact_id)

\* router.add_fact, while the clock is below max_clock
RouterAddFactWithin(max_clock, graph_id, req) ==
    IF ~AddFactRequestValid(req)
    THEN /\ last' = Call("router.add_fact", graph_id, <<req>>, 0, 0, <<>>, "ValidationError")
         /\ UNCHANGED <<graphs, fallback_store, episodes, clock, uuids, invalidated, probe, dropped, inflight>>
    ELSE IF ~Registered(graph_id)
    THEN /\ last' = Call("router.add_fact", graph_id, <<req>>, 0, 0, <<>>, UnknownGraph)
         /\ UNCHANGED <<graphs, fallback_store, episodes, clock, uuids, invalidated, probe, dropped, inflight>>
    ELSE /\ clock < max_clock
         /\ LET out == StoreAddFact(get_store(graph_id), episodes, req,
                                    uuids + 1, clock + 1, TRUE)
            IN  /\ graphs' = [graphs EXCEPT ![graph_id].store = out.store]
                /\ episodes' = out.episodes
                /\ last' = Call("router.add_fact", graph_id, <<req>>, 0,
                                out.returned, <<>>, out.raised)
         /\ uuids' = uuids + 1
         /\ clock' = clock + 1
         /\ UNCHANGED <<fallback_store, invalidated, probe, dropped, inflight>>

\* router.add_fact
RouterAddFact(graph_id, req) == RouterAddFactWithin(MaxClock, graph_id, req)

\* router.search
RouterSearch(graph_id, req) ==
    /\ last' = Call("router.search", graph_id, <<req>>, 0, 0,
                    RouterSearchResult(graph_id, req), NULL)
    /\ UNCHANGED <<graphs, fallback_store, episodes, clock, uuids, invalidated, probe, dropped, inflight>>

\* router.invalidate applied to every registered store
RouterInvalidate_EveryStore(graph_id, fact_id) ==
    IF ~Registered(graph_id)
    THEN /\ last' = Call("router.invalidate", graph_id, <<>>, fact_id, 0, <<>>, UnknownGraph)
         /\ UNCHANGED <<graphs, fallback_store, episodes, clock, uuids, invalidated, probe, dropped, inflight>>
    ELSE /\ clock < MaxClock
         /\ graphs' = [g \in DOMAIN graphs |->
                [graphs[g] EXCEPT !.store =
                    StoreInvalidate(@, episodes, fact_id, clock + 1).store]]
         /\ clock' = clock + 1
         /\ invalidated' = invalidated \cup {fact_id}
         /\ last' = Call("router.invalidate", graph_id, <<>>, fact_id, 0, <<>>, NULL)
         /\ UNCHANGED <<fallback_store, episodes, uuids, probe, dropped, inflight>>

\* router.invalidate that raises when the store does not hold the fact
RouterInvalidate_RaisesOnUnknownFact(graph_id, fact_id) ==
    IF ~Registered(graph_id)
    THEN /\ last' = Call("router.invalidate", graph_id, <<>>, fact_id, 0, <<>>, UnknownGraph)
         /\ UNCHANGED <<graphs, fallback_store, episodes, clock, uuids, invalidated, probe, dropped, inflight>>
    ELSE IF Holds(get_store(graph_id), fact_id)
    THEN /\ clock < MaxClock
         /\ graphs' = [graphs EXCEPT ![graph_id].store =
                StoreInvalidate(@, episodes, fact_id, clock + 1).store]
         /\ clock' = clock + 1
         /\ invalidated' = invalidated \cup {fact_id}
         /\ last' = Call("router.invalidate", graph_id, <<>>, fact_id, 0, <<>>, NULL)
         /\ UNCHANGED <<fallback_store, episodes, uuids, probe, dropped, inflight>>
    ELSE /\ last' = Call("router.invalidate", graph_id, <<>>, fact_id, 0, <<>>, "AttributeError")
         /\ UNCHANGED <<graphs, fallback_store, episodes, clock, uuids, invalidated, probe, dropped, inflight>>

\* router.invalidate that returns quietly when the graph is unknown
RouterInvalidate_QuietOnUnknown(graph_id, fact_id) ==
    IF ~Registered(graph_id)
    THEN /\ last' = Call("router.invalidate", graph_id, <<>>, fact_id, 0, <<>>, NULL)
         /\ UNCHANGED <<graphs, fallback_store, episodes, clock, uuids, invalidated, probe, dropped, inflight>>
    ELSE IF Holds(get_store(graph_id), fact_id)
    THEN /\ clock < MaxClock
         /\ graphs' = [graphs EXCEPT ![graph_id].store =
                StoreInvalidate(@, episodes, fact_id, clock + 1).store]
         /\ clock' = clock + 1
         /\ invalidated' = invalidated \cup {fact_id}
         /\ last' = Call("router.invalidate", graph_id, <<>>, fact_id, 0, <<>>, NULL)
         /\ UNCHANGED <<fallback_store, episodes, uuids, probe, dropped, inflight>>
    ELSE /\ last' = Call("router.invalidate", graph_id, <<>>, fact_id, 0, <<>>, NULL)
         /\ UNCHANGED <<graphs, fallback_store, episodes, clock, uuids, invalidated, probe, dropped, inflight>>

\* router.invalidate
RouterInvalidate(graph_id, fact_id) ==
    IF ~Registered(graph_id)
    THEN /\ last' = Call("router.invalidate", graph_id, <<>>, fact_id, 0, <<>>, UnknownGraph)
         /\ UNCHANGED <<graphs, fallback_store, episodes, clock, uuids, invalidated, probe, dropped, inflight>>
    ELSE IF Holds(get_store(graph_id), fact_id)
    THEN /\ clock < MaxClock
         /\ graphs' = [graphs EXCEPT ![graph_id].store =
                StoreInvalidate(@, episodes, fact_id, clock + 1).store]
         /\ clock' = clock + 1
         /\ invalidated' = invalidated \cup {fact_id}
         /\ last' = Call("router.invalidate", graph_id, <<>>, fact_id, 0, <<>>, NULL)
         /\ UNCHANGED <<fallback_store, episodes, uuids, probe, dropped, inflight>>
    ELSE /\ graphs' = [graphs EXCEPT ![graph_id].store =
                StoreInvalidate(@, episodes, fact_id, clock + 1).store]
         /\ last' = Call("router.invalidate", graph_id, <<>>, fact_id, 0, <<>>, NULL)
         /\ UNCHANGED <<fallback_store, episodes, clock, uuids, invalidated, probe, dropped, inflight>>

Next ==
    \/ \E r \in Registrations : RegisterGraph(r[1], r[2], r[3])
    \/ \E g \in GraphIds : UnregisterGraph(g)
    \/ \E g \in GraphIds, req \in AddInputs : RouterAddFact(g, req)
    \/ \E g \in GraphIds, req \in RouterSearchInputs : RouterSearch(g, req)
    \/ \E g \in GraphIds, id \in FactIds : RouterInvalidate(g, id)

Spec == Init /\ [][Next]_vars

\* a store of its own, with or without a backend
InitStore ==
    /\ graphs = << >>
    /\ fallback_store \in { NewStore(FALSE), NewStore(TRUE) }
    /\ episodes = <<>>
    /\ clock = 0
    /\ uuids = 0
    /\ invalidated = {}
    /\ dropped = {}
    /\ inflight = {}
    /\ last = Call("init", NULL, <<>>, 0, 0, <<>>, NULL)
    /\ probe = NoProbe

NextStore ==
    \/ \E req \in AddInputs, ok \in BOOLEAN : AddFact(req, ok)
    \/ \E req \in SearchInputs, ok \in BOOLEAN : Search(req, ok)
    \/ \E id \in FactIds : Invalidate(id)

SpecStore == InitStore /\ [][NextStore]_vars

-----------------------------------------------------------------------------
(* is_visible on its own: every pair of scopes, identifiers absent, equal or *)
(* different                                                                 *)

Ids == {NULL, "a", "b"}

Scopes ==
    { KnowledgeScope(l, r, f, c) : l \in ScopeLevel, r \in Ids, f \in Ids, c \in Ids }

InitVis ==
    /\ graphs = << >>
    /\ fallback_store = NewStore(FALSE)
    /\ episodes = <<>>
    /\ clock = 0
    /\ uuids = 0
    /\ invalidated = {}
    /\ dropped = {}
    /\ inflight = {}
    /\ last = Call("init", NULL, <<>>, 0, 0, <<>>, NULL)
    /\ \E fs \in Scopes, qs \in Scopes :
          probe = [fact_scope |-> fs, query_scope |-> qs,
                   called |-> FALSE, result |-> FALSE]

IsVisibleCall ==
    /\ ~probe.called
    /\ probe' = [probe EXCEPT !.called = TRUE,
                              !.result = is_visible(probe.fact_scope, probe.query_scope)]
    /\ UNCHANGED <<graphs, fallback_store, episodes, clock, uuids, invalidated, last, dropped, inflight>>

NextVis == IsVisibleCall

SpecVis == InitVis /\ [][NextVis]_vars

-----------------------------------------------------------------------------
(* Properties *)

\* platform < realm < formation < cell, the more general level first
LevelRank(level) ==
    CASE level = "platform" -> 0
      [] level = "realm" -> 1
      [] level = "formation" -> 2
      [] level = "cell" -> 3

\* C1. Visibility monotonicity: a fact scope at a strictly more general level
\* than the query scope is visible, and one at a strictly more specific level
\* is not, whatever identifiers either scope carries.
C1_VisibilityMonotone ==
    probe.called =>
        /\ LevelRank(probe.fact_scope.level) < LevelRank(probe.query_scope.level)
              => probe.result = TRUE
        /\ LevelRank(probe.fact_scope.level) > LevelRank(probe.query_scope.level)
              => probe.result = FALSE

\* a cell scope was found invisible from a realm scope that shares its realm
C1_Witness ==
    /\ probe.called
    /\ probe.fact_scope = KnowledgeScope("cell", "a", "a", "b")
    /\ probe.query_scope = KnowledgeScope("realm", "a", NULL, NULL)
    /\ probe.result = FALSE

\* the identifiers from realm up to and including a level
IdsUpTo(level) ==
    CASE level = "platform" -> {}
      [] level = "realm" -> {"realm_id"}
      [] level = "formation" -> {"realm_id", "formation_id"}
      [] level = "cell" -> {"realm_id", "formation_id", "cell_id"}

\* C2. Same-level equality: at equal levels a fact scope is visible iff every
\* identifier from realm up to that level is equal on both scopes; the
\* identifiers below the level play no part.
C2_SameLevelEquality ==
    (probe.called /\ probe.fact_scope.level = probe.query_scope.level) =>
        (probe.result = TRUE <=>
            \A id \in IdsUpTo(probe.fact_scope.level) :
                probe.fact_scope[id] = probe.query_scope[id])

\* two formation scopes that differ only in cell_id were found visible
C2_Witness ==
    /\ probe.called
    /\ probe.fact_scope = KnowledgeScope("formation", "a", "b", "a")
    /\ probe.query_scope = KnowledgeScope("formation", "a", "b", NULL)
    /\ probe.result = TRUE

-----------------------------------------------------------------------------
(* Helpers of the properties below *)

Range(seq) == { seq[i] : i \in 1..Len(seq) }

\* the position of the fact with this id in a list of facts
PositionOf(facts, id) == CHOOSE i \in 1..Len(facts) : facts[i].id = id

\* the facts of a store that pass the filter of a request, whatever its limit
MatchingFacts(store, req) == { f \in Range(store.facts) : Matches(f, req) }

\* the stores of the registered graphs named in a graph's parent_chain
ParentStores(graph_id) ==
    { graphs[p].store : p \in Range(graphs[graph_id].parent_chain) \cap DOMAIN graphs }

WriteOps == {"router.add_fact", "router.invalidate"}

\* C3. Invalidation hides facts: once invalidate has completed on a store
\* for a fact it holds, no later search with include_invalidated = false
\* returns that fact, through the router or on the store itself.
C3_InvalidationHides ==
    /\ (last.op = "router.search" /\ ~last.req[1].include_invalidated) =>
          \A f \in Range(last.result) : f.id \notin invalidated
    /\ \A g \in DOMAIN graphs, req \in SearchInputs :
          ~req.include_invalidated =>
              \A f \in Range(StoreSearch(get_store(g), episodes, req, TRUE).returned) :
                  f.id \notin invalidated

\* a search that would have returned an invalidated fact of the graph's own
\* store, had it asked for invalidated facts, has run without asking for them
C3_Witness ==
    /\ last.op = "router.search"
    /\ Registered(last.graph)
    /\ ~last.req[1].include_invalidated
    /\ last.req[1].max_results = 20
    /\ \E f \in Range(get_store(last.graph).facts) :
          /\ f.id \in invalidated
          /\ Matches(f, [last.req[1] EXCEPT !.include_invalidated = TRUE])

\* ... and with include_invalidated = true such a fact is returned
C3_MayReturnInvalidated ==
    /\ last.op = "router.search"
    /\ last.req[1].include_invalidated
    /\ \E f \in Range(last.result) : f.id \in invalidated

\* C4, as claimed. Chain inheritance: a search on a graph that inherits
\* returns the union, without repeated contents, of its own matching facts
\* and its registered parents'; on a graph that does not inherit, its own
\* matching facts only.  (Stated for the positive limits; what a limit of
\* zero or less returns is the matter of C8.)
C4_Original ==
    (/\ last.op = "router.search"
     /\ Registered(last.graph)
     /\ last.req[1].max_results > 0) =>
        LET req == last.req[1]
            own == MatchingFacts(get_store(last.graph), req)
            parents == UNION { MatchingFacts(st, req) : st \in ParentStores(last.graph) }
        IN  /\ (graphs[last.graph].inherit /\ ParentStores(last.graph) # {}) =>
                  /\ Range(last.result) \subseteq own \cup parents
                  /\ \A i, j \in 1..Len(last.result) :
                        i # j => last.result[i].content # last.result[j].content
                  /\ { f.content : f \in Range(last.result) }
                        = { f.content : f \in own \cup parents }
            /\ ~graphs[last.graph].inherit =>
                  Range(last.result) \subseteq Range(get_store(last.graph).facts)

\* C4, amended. The facts returned are matching facts of the graph's own
\* store or, only if it inherits, of its registered parents' stores; no
\* content is returned twice; and every content of that union is returned
\* when max_results is at least the number of matching facts in those stores
\* (a smaller limit cuts the result short).
C4_ChainInheritance ==
    (last.op = "router.search" /\ Registered(last.graph)) =>
        LET req == last.req[1]
            own == MatchingFacts(get_store(last.graph), req)
            inherited == IF graphs[last.graph].inherit
                         THEN UNION { MatchingFacts(st, req) : st \in ParentStores(last.graph) }
                         ELSE {}
        IN  /\ Range(last.result) \subseteq own \cup inherited
            /\ \A i, j \in 1..Len(last.result) :
                  i # j => last.result[i].content # last.result[j].content
            /\ req.max_results >= Cardinality(own \cup inherited) =>
                  { f.content : f \in Range(last.result) }
                      = { f.content : f \in own \cup inherited }

\* a search on an inheriting graph returned a fact of its own and one of its
\* parent's
C4_Witness ==
    /\ last.op = "router.search"
    /\ Registered(last.graph)
    /\ graphs[last.graph].inherit
    /\ \E f \in Range(last.result) : f \in Range(get_store(last.graph).facts)
    /\ \E f \in Range(last.result), st \in ParentStores(last.graph) :
          /\ f \in Range(st.facts)
          /\ f \notin Range(get_store(last.graph).facts)

\* a search on a graph that does not inherit left out a matching fact of its
\* registered parent
C4_WitnessIsolated ==
    /\ last.op = "router.search"
    /\ Registered(last.graph)
    /\ ~graphs[last.graph].inherit
    /\ last.result # <<>>
    /\ \E st \in ParentStores(last.graph) : MatchingFacts(st, last.req[1]) # {}

\* C5. Write locality: router.add_fact and router.invalidate on a graph
\* leave the entry and the facts of every other registered graph, and every
\* store outside the router, as they were.
C5_WriteLocality ==
    [][ last'.op \in WriteOps =>
          /\ \A g \in DOMAIN graphs :
                g # last'.graph => (g \in DOMAIN graphs' /\ graphs'[g] = graphs[g])
          /\ DOMAIN graphs' = DOMAIN graphs
          /\ fallback_store' = fallback_store ]_vars

\* router.invalidate has run on an inheriting child with the id of a fact
\* that its parent holds, and the parent's fact is still valid
C5_Witness ==
    /\ last.op = "router.invalidate"
    /\ last.error = NULL
    /\ Registered(last.graph)
    /\ graphs[last.graph].inherit
    /\ \E st \in ParentStores(last.graph) :
          /\ st # get_store(last.graph)
          /\ \E f \in Range(st.facts) : f.id = last.fact_id /\ f.valid_until = NoTime

\* C6. Confidence ranking: a search on a store in fallback mode returns facts
\* in non-increasing order of confidence, facts of equal confidence in the
\* order in which they were added.
C6_ConfidenceRanking ==
    (last.op = "store.search" /\ ~fallback_store.graphiti) =>
        \A i, j \in 1..Len(last.result) :
            i < j =>
                /\ last.result[i].confidence >= last.result[j].confidence
                /\ last.result[i].confidence = last.result[j].confidence =>
                      PositionOf(fallback_store.facts, last.result[i].id)
                          < PositionOf(fallback_store.facts, last.result[j].id)

\* a search returned two facts of equal confidence
C6_Witness ==
    /\ last.op = "store.search"
    /\ ~fallback_store.graphiti
    /\ Len(last.result) >= 2
    /\ last.result[1].confidence = last.result[2].confidence

\* C7, as claimed. Backend failure on add: when the backend's add_episode
\* raises during add_fact, the fact is still in the store's fact map and
\* add_fact still returns its id.
C7_Original ==
    (last.op = "store.add_fact" /\ last.error = "BackendError") =>
        /\ last.returned_id # 0
        /\ Holds(fallback_store, last.returned_id)

\* C8, as claimed. Non-positive result limit: a search with max_results <= 0
\* on a store in fallback mode returns nothing.
C8_Original ==
    (/\ last.op = "store.search"
     /\ ~fallback_store.graphiti
     /\ last.req[1].max_results <= 0) => last.result = <<>>

\* C9. Unknown graph on write: router.add_fact and router.invalidate on a
\* graph that is not registered fail with the unknown-graph error and change
\* no store and no registry entry; on a registered graph they never raise it.
C9_UnknownGraphOnWrite ==
    [][ (last'.op \in WriteOps /\ last'.error # "ValidationError") =>
          IF Registered(last'.graph)
          THEN last'.error # UnknownGraph
          ELSE /\ last'.error = UnknownGraph
               /\ graphs' = graphs
               /\ fallback_store' = fallback_store ]_vars

\* router.invalidate failed on an unregistered graph, for a fact that a
\* registered graph holds
C9_Witness ==
    /\ last.op = "router.invalidate"
    /\ last.error = UnknownGraph
    /\ ~Registered(last.graph)
    /\ \E g \in DOMAIN graphs : Holds(get_store(g), last.fact_id)

\* a scope carries the identifiers of every level from realm up to its own
WellFormed(scope) == \A id \in IdsUpTo(scope.level) : scope[id] # NULL

\* C10, as claimed. Malformed scope is rejected: no store ever holds a fact
\* whose scope lacks an identifier required for its level.
C10_Original ==
    \A f \in Range(fallback_store.facts) : WellFormed(f.scope)

\* C10, amended. The scope of an add_fact is not validated: a request whose
\* scope lacks an identifier required for its level is accepted like any
\* other and its fact is stored with the scope as given.  The only
\* ValidationError is for a request pydantic rejects (here a confidence
\* outside [0, 1]), and it leaves the store's fact map unchanged.
C10_ScopeNotValidated ==
    /\ [](last.op = "store.add_fact" =>
            /\ last.error = "ValidationError"
                  <=> (last.req[1].confidence < 0 \/ last.req[1].confidence > 10)
            /\ last.error = NULL =>
                  \E f \in Range(fallback_store.facts) :
                      f.id = last.returned_id /\ f.scope = last.req[1].scope)
    /\ [][ (last'.op = "store.add_fact" /\ last'.error = "ValidationError")
              => fallback_store' = fallback_store ]_vars

\* add_fact has stored a fact whose realm scope has no realm_id
C10_Witness ==
    /\ last.op = "store.add_fact"
    /\ last.error = NULL
    /\ ~WellFormed(last.req[1].scope)
    /\ \E f \in Range(fallback_store.facts) :
          f.id = last.returned_id /\ f.scope = last.req[1].scope

-----------------------------------------------------------------------------
(* The registry on its own: three graphs, parent chains with an unknown id, *)
(* with a grandparent, with repeated ids and with cycles                    *)

ChainGraphIds == {"platform-kg", "realm-kg", "trading-kg"}

ChainParentChains ==
    { <<>>,
      <<"platform-kg">>,
      <<"realm-kg">>,
      <<"realm-kg", "platform-kg">>,
      <<"platform-kg", "realm-kg">>,
      <<"unknown-kg", "platform-kg">>,
      <<"trading-kg", "realm-kg", "realm-kg">> }

\* get_search_chain, called from outside
GetSearchChain(graph_id) ==
    /\ last' = Call("router.get_search_chain", graph_id, <<>>, 0, 0,
                    get_search_chain(graph_id), NULL)
    /\ UNCHANGED <<graphs, fallback_store, episodes, clock, uuids, invalidated,
                   probe, dropped, inflight>>

NextChain ==
    \/ \E g \in ChainGraphIds, pc \in ChainParentChains, inh \in BOOLEAN :
          RegisterGraph(g, pc, inh)
    \/ \E g \in ChainGraphIds : UnregisterGraph(g)
    \/ \E g \in ChainGraphIds \cup {"unknown-kg"} : GetSearchChain(g)

SpecChain == Init /\ [][NextChain]_vars

\* the ids of a parent chain that are registered, in the chain's order
RECURSIVE RegisteredParents(_)
RegisteredParents(parent_chain) ==
    IF parent_chain = <<>> THEN <<>>
    ELSE (IF Head(parent_chain) \in DOMAIN graphs THEN <<Head(parent_chain)>> ELSE <<>>)
         \o RegisteredParents(Tail(parent_chain))

\* C11. Search chain shape: the chain of an unregistered graph is empty; of
\* a graph that does not inherit, the graph's entry alone; otherwise the
\* graph's entry followed by the entries of the registered ids of its
\* parent_chain, in that order, and nothing else (no parent of a parent).
C11_SearchChainShape ==
    last.op = "router.get_search_chain" =>
        LET chain == last.result
            g == last.graph
        IN  IF g \notin DOMAIN graphs THEN chain = <<>>
            ELSE IF ~graphs[g].inherit THEN chain = <<graphs[g]>>
            ELSE LET parents == RegisteredParents(graphs[g].parent_chain)
                 IN  /\ Len(chain) = 1 + Len(parents)
                     /\ chain[1] = graphs[g]
                     /\ \A i \in 1..Len(parents) : chain[i + 1] = graphs[parents[i]]

\* the chain of an inheriting graph was taken while one of its parents was
\* not registered and another, registered, had a registered parent of its
\* own that the graph does not name
C11_Witness ==
    /\ last.op = "router.get_search_chain"
    /\ Registered(last.graph)
    /\ graphs[last.graph].inherit
    /\ Len(last.result) >= 2
    /\ \E p \in Range(graphs[last.graph].parent_chain) : ~Registered(p)
    /\ \E p \in Range(graphs[last.graph].parent_chain) :
          /\ Registered(p)
          /\ \E q \in Range(graphs[p].parent_chain) :
                /\ Registered(q)
                /\ q \notin Range(graphs[last.graph].parent_chain) \cup {last.graph}

\* C12. Registry transitions: register_graph leaves the graph registered with
\* an empty store, unregister_graph leaves it unregistered (changing nothing
\* when it was not registered), and neither touches the entry of another
\* graph; router.search returns no fact that a store held when the store was
\* replaced or removed, and nothing at all for an unregistered graph;
\* router.add_fact on an unregistered graph fails and changes nothing.
C12_RegistryTransitions ==
    [][LET g == last'.graph
       IN  /\ last'.op = "register_graph" =>
                /\ DOMAIN graphs' = DOMAIN graphs \cup {g}
                /\ graphs'[g].store.facts = <<>>
                /\ \A h \in DOMAIN graphs \ {g} : graphs'[h] = graphs[h]
           /\ last'.op = "unregister_graph" =>
                /\ DOMAIN graphs' = DOMAIN graphs \ {g}
                /\ \A h \in DOMAIN graphs \ {g} : graphs'[h] = graphs[h]
                /\ g \notin DOMAIN graphs => graphs' = graphs
           /\ last'.op = "router.search" =>
                /\ g \notin DOMAIN graphs => last'.result = <<>>
                /\ \A i \in 1..Len(last'.result) : last'.result[i].id \notin dropped
           /\ (last'.op = "router.add_fact" /\ g \notin DOMAIN graphs
                  /\ last'.error # "ValidationError") =>
                /\ last'.error = UnknownGraph
                /\ graphs' = graphs
      ]_vars

\* a search on a child that inherits from a graph that was registered again
\* after a fact was added to it, answered with a fact added to the parent
\* since
C12_Witness ==
    /\ last.op = "router.search"
    /\ last.graph = "trading-kg"
    /\ Registered("trading-kg") /\ Registered("platform-kg")
    /\ graphs["trading-kg"].inherit
    /\ dropped # {}
    /\ Len(last.result) = 1
    /\ last.result[1].id \in HeldIds("platform-kg")
    /\ last.result[1].id \notin dropped

-----------------------------------------------------------------------------
(* The router's merge: the fixture's platform graph and its inheriting child, *)
(* up to three facts, so that one store can hold three matches              *)

MaxMergeClock == 3

MergeRegistrations ==
    { <<"platform-kg", <<>>, TRUE>>,
      <<"trading-kg", <<"platform-kg">>, TRUE>> }

\* two contents, one of them at two confidences
MergeAddInputs ==
    { AddFactRequest(ContentMkX, Platform, UserInput, 9, <<>>),
      AddFactRequest(ContentMk, Platform, UserInput, 9, <<>>),
      AddFactRequest(ContentMk, Platform, UserInput, 5, <<>>) }

MergeSearchInputs ==
    { SearchRequest(<<"m", "k">>, RealmTrading, n, 0, FALSE) : n \in {-1, 1, 20} }

NextMerge ==
    \/ \E r \in MergeRegistrations : RegisterGraph(r[1], r[2], r[3])
    \/ \E g \in GraphIds, req \in MergeAddInputs :
          RouterAddFactWithin(MaxMergeClock, g, req)
    \/ \E g \in GraphIds, req \in MergeSearchInputs : RouterSearch(g, req)

SpecMerge == Init /\ [][NextMerge]_vars

\* the first fact of all_results with a given content
FirstWithContent(all_results, content) ==
    all_results[CHOOSE i \in 1..Len(all_results) :
                    /\ all_results[i].content = content
                    /\ \A j \in 1..(i - 1) : all_results[j].content # content]

\* C13, without its limit: the result of router.search holds no content
\* twice, each fact in it is the first with its content among the stores'
\* answers taken in chain order, and it is in non-increasing confidence.
C13_MergeParts ==
    last.op = "router.search" =>
        LET result == last.result
            all_results == AllResults(get_search_chain(last.graph), last.req[1])
        IN  /\ \A i, j \in 1..Len(result) :
                  result[i].content = result[j].content => i = j
            /\ \A i \in 1..Len(result) :
                  /\ result[i] \in Range(all_results)
                  /\ result[i] = FirstWithContent(all_results, result[i].content)
            /\ \A i \in 1..(Len(result) - 1) :
                  result[i].confidence >= result[i + 1].confidence

\* C13, as claimed. Router merge: the result of router.search holds no
\* content twice, keeps of the facts sharing a content the first in chain
\* order, is in non-increasing confidence and has at most max_results
\* elements (none when max_results is not positive).
C13_Original ==
    /\ C13_MergeParts
    /\ last.op = "router.search" =>
          Len(last.result) <= (IF last.req[1].max_results > 0
                               THEN last.req[1].max_results ELSE 0)

\* a search through the child that kept the child's fact over the parent's
\* fact of the same content and higher confidence
C13_WitnessFirstWins ==
    /\ last.op = "router.search"
    /\ last.graph = "trading-kg"
    /\ Registered("trading-kg") /\ Registered("platform-kg")
    /\ Len(last.result) >= 1
    /\ \E i \in 1..Len(last.result) :
          /\ last.result[i].id \in HeldIds("trading-kg")
          /\ \E k \in 1..Len(get_store("platform-kg").facts) :
                /\ get_store("platform-kg").facts[k].content = last.result[i].content
                /\ get_store("platform-kg").facts[k].confidence > last.result[i].confidence

-----------------------------------------------------------------------------
(* Concurrent calls on one store with a backend.  A coroutine runs without   *)
(* interruption up to an await of the backend (store.py 54 and 67); inflight *)
(* holds the calls suspended there.  invalidate has no await.                *)

MaxConcClock == 3

ConcAddInputs ==
    { AddFactRequest(ContentMk, Platform, UserInput, 9, <<>>),
      AddFactRequest(ContentMk, RealmTrading, UserInput, 5, <<>>) }

ConcSearchInputs == { SearchRequest(<<"m", "k">>, RealmTrading, 20, 0, FALSE) }

InitConc ==
    /\ graphs = << >>
    /\ fallback_store = NewStore(TRUE)
    /\ episodes = <<>>
    /\ clock = 0
    /\ uuids = 0
    /\ invalidated = {}
    /\ dropped = {}
    /\ inflight = {}
    /\ last = Call("init", NULL, <<>>, 0, 0, <<>>, NULL)
    /\ probe = NoProbe

\* self._facts[fact_id] = fact: a dict keeps the position of a key it has
DictSetFact(facts, fact) ==
    IF \E i \in 1..Len(facts) : facts[i].id = fact.id
    THEN [i \in 1..Len(facts) |-> IF facts[i].id = fact.id THEN fact ELSE facts[i]]
    ELSE Append(facts, fact)

\* add_fact up to its await of add_episode, lines 43-54
AddFactBegin(req) ==
    /\ fallback_store.graphiti
    /\ AddFactRequestValid(req)
    /\ clock < MaxConcClock
    /\ uuids' = uuids + 1
    /\ clock' = clock + 1
    /\ inflight' = inflight \cup
            { [op |-> "store.add_fact", req |-> req,
               fact |-> Fact(uuids + 1, req, clock + 1)] }
    /\ last' = Call("store.add_fact: await", NULL, <<req>>, 0, 0, <<>>, NULL)
    /\ UNCHANGED <<graphs, fallback_store, episodes, invalidated, probe, dropped>>

\* add_episode returns and add_fact stores the fact under its content
AddEpisodeReturns_KeyedByContent(call) ==
    /\ call.op = "store.add_fact"
    /\ LET Other(fact) == fact.content # call.fact.content
       IN  fallback_store' = [fallback_store EXCEPT !.facts =
                Append(SelectSeq(@, Other), call.fact)]
    /\ episodes' = Append(episodes, [name |-> <<"fact-", call.fact.id>>,
                                     group_id |-> _scope_group(call.req.scope)])
    /\ inflight' = inflight \ {call}
    /\ last' = Call("store.add_fact", NULL, <<call.req>>, 0, call.fact.id, <<>>, NULL)
    /\ UNCHANGED <<graphs, clock, uuids, invalidated, probe, dropped>>

\* add_episode returns and add_fact runs to its end, lines 62-63
AddEpisodeReturns(call) ==
    /\ call.op = "store.add_fact"
    /\ fallback_store' = [fallback_store EXCEPT !.facts = DictSetFact(@, call.fact)]
    /\ episodes' = Append(episodes, [name |-> <<"fact-", call.fact.id>>,
                                     group_id |-> _scope_group(call.req.scope)])
    /\ inflight' = inflight \ {call}
    /\ last' = Call("store.add_fact", NULL, <<call.req>>, 0, call.fact.id, <<>>, NULL)
    /\ UNCHANGED <<graphs, clock, uuids, invalidated, probe, dropped>>

\* add_episode raises and add_fact raises with it
AddEpisodeRaises(call) ==
    /\ call.op = "store.add_fact"
    /\ inflight' = inflight \ {call}
    /\ last' = Call("store.add_fact", NULL, <<call.req>>, 0, 0, <<>>, "BackendError")
    /\ UNCHANGED <<graphs, fallback_store, episodes, clock, uuids, invalidated,
                   probe, dropped>>

\* search up to its await of the backend's search, lines 66-71
SearchBegin(req) ==
    /\ fallback_store.graphiti
    /\ inflight' = inflight \cup { [op |-> "store.search", req |-> req] }
    /\ last' = Call("store.search: await", NULL, <<req>>, 0, 0, <<>>, NULL)
    /\ UNCHANGED <<graphs, fallback_store, episodes, clock, uuids, invalidated,
                   probe, dropped>>

\* the backend's search returns and search maps its results, line 72
BackendSearchReturns(call) ==
    /\ call.op = "store.search"
    /\ inflight' = inflight \ {call}
    /\ last' = Call("store.search", NULL, <<call.req>>, 0, 0,
                    _map_graphiti_results(<<>>, call.req), NULL)
    /\ UNCHANGED <<graphs, fallback_store, episodes, clock, uuids, invalidated,
                   probe, dropped>>

\* the backend's search raises and search raises with it
BackendSearchRaises(call) ==
    /\ call.op = "store.search"
    /\ inflight' = inflight \ {call}
    /\ last' = Call("store.search", NULL, <<call.req>>, 0, 0, <<>>, "BackendError")
    /\ UNCHANGED <<graphs, fallback_store, episodes, clock, uuids, invalidated,
                   probe, dropped>>

\* invalidate between the other calls' awaits
ConcInvalidate(fact_id) == InvalidateWithin(MaxConcClock, fact_id)

NextConc ==
    \/ \E req \in ConcAddInputs : AddFactBegin(req)
    \/ \E call \in inflight : AddEpisodeReturns(call)
    \/ \E call \in inflight : AddEpisodeRaises(call)
    \/ \E req \in ConcSearchInputs : SearchBegin(req)
    \/ \E call \in inflight : BackendSearchReturns(call)
    \/ \E call \in inflight : BackendSearchRaises(call)
    \/ \E id \in 1..MaxConcClock : ConcInvalidate(id)

SpecConc == InitConc /\ [][NextConc]_vars

\* C14. No lost updates under concurrency: whatever the interleaving of the
\* calls at their awaits, a step removes or overwrites no held fact and
\* never clears a valid_until that is set; an add_fact that completes leaves
\* its fact held under its id, an id no other held fact has; an invalidate of
\* a held id leaves that fact's valid_until set.
C14_NoLostUpdates ==
    [][LET before == fallback_store.facts
           after == fallback_store'.facts
       IN  /\ \A i \in 1..Len(before) : \E j \in 1..Len(after) :
                 /\ after[j].id = before[i].id
                 /\ [after[j] EXCEPT !.valid_until = NoTime]
                      = [before[i] EXCEPT !.valid_until = NoTime]
                 /\ before[i].valid_until # NoTime => after[j].valid_until # NoTime
           /\ \A i, j \in 1..Len(after) : after[i].id = after[j].id => i = j
           /\ (last'.op = "store.add_fact" /\ last'.error = NULL) =>
                 \E j \in 1..Len(after) :
                    /\ after[j].id = last'.returned_id
                    /\ after[j].content = last'.req[1].content
                    /\ after[j].scope = last'.req[1].scope
           /\ (last'.op = "store.invalidate" /\ Holds(fallback_store, last'.fact_id)) =>
                 \A j \in 1..Len(after) :
                    after[j].id = last'.fact_id => after[j].valid_until # NoTime
      ]_vars

\* an add_fact completed after a fact that began later than it was added
\* and invalidated while it was suspended
C14_Witness ==
    /\ last.op = "store.add_fact"
    /\ last.error = NULL
    /\ Holds(fallback_store, last.returned_id)
    /\ \E i \in 1..Len(fallback_store.facts) :
          /\ fallback_store.facts[i].id > last.returned_id
          /\ fallback_store.facts[i].valid_until # NoTime
          /\ fallback_store.facts[i].content = last.req[1].content

\* C15. Unknown fact id on invalidate: invalidate with an id the store does
\* not hold raises nothing and returns the store as it was, for every store
\* the router holds; router.invalidate on a registered graph with such an id
\* raises nothing and leaves every entry, fact and valid_until unchanged.
C15_UnknownFactIsNoOp ==
    [][ /\ \A g \in DOMAIN graphs : \A id \in FactIds :
              ~Holds(graphs[g].store, id) =>
                  StoreInvalidate(graphs[g].store, episodes, id, clock + 1)
                      = Outcome(graphs[g].store, episodes, <<>>, NULL)
        /\ (/\ last'.op = "router.invalidate"
            /\ Registered(last'.graph)
            /\ ~Holds(get_store(last'.graph), last'.fact_id)) =>
              /\ last'.error = NULL
              /\ graphs' = graphs
              /\ fallback_store' = fallback_store
              /\ invalidated' = invalidated ]_vars

\* router.invalidate returned on a registered graph whose store holds a valid
\* fact, but not the fact of the id given
C15_Witness ==
    /\ last.op = "router.invalidate"
    /\ last.error = NULL
    /\ Registered(last.graph)
    /\ ~Holds(get_store(last.graph), last.fact_id)
    /\ \E f \in Range(get_store(last.graph).facts) : f.valid_until = NoTime
    /\ last.fact_id \notin invalidated

-----------------------------------------------------------------------------
(* The keyword filter of a store without a backend: queries that are empty, *)
(* blank, a whole word, a part of a word, in another case                   *)

ContentX == <<"x">>

\* "Mk x" without tags, and "x" tagged "Mk"
MatchAddInputs ==
    { AddFactRequest(ContentMkX, Platform, UserInput, 9, <<>>),
      AddFactRequest(ContentX, Platform, UserInput, 5, << <<"M", "k">> >>) }

\* "", " ", "m", "mk", "K X", "xm"
MatchQueries ==
    { <<>>, <<" ">>, <<"m">>, <<"m", "k">>, <<"K", " ", "X">>, <<"x", "m">> }

MatchSearchInputs ==
    { SearchRequest(q, Platform, 20, 0, inv) : q \in MatchQueries, inv \in BOOLEAN }

NextMatch ==
    \/ \E req \in MatchAddInputs : AddFact(req, TRUE)
    \/ \E req \in MatchSearchInputs : Search(req, TRUE)
    \/ \E id \in FactIds : Invalidate(id)

SpecMatch == Init /\ [][NextMatch]_vars

\* w occurs in s at some offset, character by character
Occurs(w, s) ==
    \E off \in 0..(Len(s) - Len(w)) : \A k \in 1..Len(w) : s[off + k] = w[k]

\* the blank-separated words of a fact's content and of its tags, lower-cased
WordsOf(fact) ==
    Range(split(lower(fact.content)))
        \cup UNION { Range(split(lower(fact.tags[i]))) : i \in 1..Len(fact.tags) }

\* C16, as claimed. Keyword match in fallback mode: a search returns a fact
\* only if some blank-separated token of the query is, case aside, a whole
\* word of the fact's content or tags; an empty or blank query returns
\* nothing.
C16_Original ==
    (last.op = "store.search" /\ ~fallback_store.graphiti) =>
        LET tokens == Range(split(lower(last.req[1].query)))
        IN  /\ \A f \in Range(last.result) : tokens \cap WordsOf(f) # {}
            /\ tokens = {} => last.result = <<>>

\* C16. Keyword match in fallback mode: a search returns a fact only if some
\* blank-separated token of the query occurs, case aside, as a substring of
\* the fact's content or of its tags joined by blanks, and with a limit above
\* the number of facts it returns every such fact that is valid (or asked
\* for), confident enough and visible; an empty or blank query returns
\* nothing.
C16_SubstringMatch ==
    (last.op = "store.search" /\ ~fallback_store.graphiti) =>
        LET req == last.req[1]
            tokens == Range(split(lower(req.query)))
            TokenOccurs(f) ==
                \E w \in tokens : \/ Occurs(w, lower(f.content))
                                  \/ Occurs(w, lower(join(f.tags)))
            Eligible(f) ==
                /\ req.include_invalidated \/ f.valid_until = NoTime
                /\ f.confidence >= req.min_confidence
                /\ is_visible(f.scope, req.scope)
        IN  /\ \A f \in Range(last.result) : TokenOccurs(f)
            /\ req.max_results > Len(fallback_store.facts) =>
                  \A f \in Range(fallback_store.facts) :
                      (Eligible(f) /\ TokenOccurs(f)) => f \in Range(last.result)
            /\ tokens = {} => last.result = <<>>

\* a search returned a fact none of whose words is a token of the query:
\* a token is only a part of a word of the content, or of a tag
C16_Witness ==
    /\ last.op = "store.search"
    /\ ~fallback_store.graphiti
    /\ Len(last.result) = 2
    /\ \A f \in Range(last.result) :
          Range(split(lower(last.req[1].query))) \cap WordsOf(f) = {}

-----------------------------------------------------------------------------
(* Three graphs with facts: a grandparent, siblings, a child that does not  *)
(* inherit, a graph that is its own parent, two graphs that are each        *)
(* other's parent, a parent named twice                                     *)

TreeRegistrations ==
    { <<"platform-kg", <<>>, TRUE>>,
      <<"platform-kg", <<"platform-kg">>, TRUE>>,
      <<"platform-kg", <<"trading-kg">>, TRUE>>,
      <<"realm-kg", <<"platform-kg">>, TRUE>>,
      <<"trading-kg", <<"realm-kg">>, TRUE>>,
      <<"trading-kg", <<"realm-kg">>, FALSE>>,
      <<"trading-kg", <<"platform-kg">>, TRUE>>,
      <<"trading-kg", <<"realm-kg", "realm-kg">>, TRUE>> }

TreeAddInputs ==
    { AddFactRequest(ContentMkX, Platform, UserInput, 9, <<>>),
      AddFactRequest(ContentMk, Platform, UserInput, 5, <<>>) }

TreeSearchInputs == { SearchRequest(<<"m", "k">>, RealmTrading, 20, 0, FALSE) }

NextTree ==
    \/ \E r \in TreeRegistrations : RegisterGraph(r[1], r[2], r[3])
    \/ \E g \in ChainGraphIds : UnregisterGraph(g)
    \/ \E g \in ChainGraphIds, req \in TreeAddInputs : RouterAddFact(g, req)
    \/ \E g \in ChainGraphIds, req \in TreeSearchInputs : RouterSearch(g, req)

SpecTree == Init /\ [][NextTree]_vars

\* C18. Read isolation between graphs: every fact that router.search on a
\* graph returns is held now by the store of that graph or, only when the
\* graph inherits, by the store of a registered graph named in its
\* parent_chain, and is no fact of a store that was replaced or removed.
C18_ReadIsolation ==
    last.op = "router.search" =>
        \A f \in Range(last.result) :
            /\ last.graph \in DOMAIN graphs
            /\ \/ f \in Range(graphs[last.graph].store.facts)
               \/ /\ graphs[last.graph].inherit
                  /\ \E p \in Range(graphs[last.graph].parent_chain) :
                        /\ p \in DOMAIN graphs
                        /\ f \in Range(graphs[p].store.facts)
            /\ f.id \notin dropped

\* a search on an inheriting graph returned a fact and left out a matching
\* fact, of another content, held by a registered parent of its parent
C18_Witness ==
    /\ last.op = "router.search"
    /\ Registered(last.graph)
    /\ graphs[last.graph].inherit
    /\ last.result # <<>>
    /\ \E p \in Range(graphs[last.graph].parent_chain) \cap DOMAIN graphs :
          \E q \in Range(graphs[p].parent_chain) \cap DOMAIN graphs :
             /\ q \notin Range(graphs[last.graph].parent_chain) \cup {last.graph}
             /\ \E f \in MatchingFacts(graphs[q].store, last.req[1]) :
                   \A i \in 1..Len(last.result) : last.result[i].content # f.content

\* C20. Cyclic parent declarations are harmless: whatever the registry, a
\* graph that is its own parent, two graphs that are each other's parent and
\* a parent named twice included, the search chain of a graph has at most
\* 1 + len(parent_chain) entries and a search result holds no content twice.
C20_CyclesHarmless ==
    /\ \A g \in DOMAIN graphs :
          Len(get_search_chain(g)) <= 1 + Len(graphs[g].parent_chain)
    /\ last.op = "router.search" =>
          \A i, j \in 1..Len(last.result) :
              last.result[i].content = last.result[j].content => i = j

\* a search on a graph that names itself as its parent returned a fact that
\* the stores of its chain gave more than once
C20_Witness ==
    /\ last.op = "router.search"
    /\ Registered(last.graph)
    /\ last.graph \in Range(graphs[last.graph].parent_chain)
    /\ Len(get_search_chain(last.graph)) = 2
    /\ last.result # <<>>
    /\ Len(AllResults(get_search_chain(last.graph), last.req[1])) > Len(last.result)

\* a search on one of two graphs that are each other's parent returned the
\* facts of both
C20_WitnessMutual ==
    /\ last.op = "router.search"
    /\ last.graph = "trading-kg"
    /\ Registered("trading-kg") /\ Registered("platform-kg")
    /\ "platform-kg" \in Range(graphs["trading-kg"].parent_chain)
    /\ "trading-kg" \in Range(graphs["platform-kg"].parent_chain)
    /\ graphs["trading-kg"].inherit
    /\ Len(last.result) = 2

-----------------------------------------------------------------------------
(* The two ways a store decides on scopes: is_visible in the fallback, and  *)
(* the group id of a fact against the visible groups of a query for the     *)
(* backend, on every pair of scopes                                         *)

\* the group id add_fact gives the backend for the fact scope, and the
\* group ids search gives it for the query scope
ScopeGroupsCall ==
    /\ last.op = "init"
    /\ last' = Call("store._scope_group, store._visible_groups", NULL, <<>>, 0, 0,
                    << _scope_group(probe.fact_scope),
                       _visible_groups(probe.query_scope) >>, NULL)
    /\ UNCHANGED <<graphs, fallback_store, episodes, clock, uuids, invalidated,
                   probe, dropped, inflight>>

NextGroups ==
    \/ IsVisibleCall
    \/ ScopeGroupsCall

SpecGroups == InitVis /\ [][NextGroups]_vars

\* a scope carries the identifiers of its level and no other
ExactIds(scope) ==
    \A id \in {"realm_id", "formation_id", "cell_id"} :
        scope[id] # NULL <=> id \in IdsUpTo(scope.level)

\* C19, as claimed. Fallback and backend visibility agree: for a fact scope
\* and a query scope that carry the identifiers of their levels, the group id
\* of the fact scope is one of the visible groups of the query scope iff
\* is_visible says the fact scope is visible from the query scope.
C19_Original ==
    (/\ probe.called
     /\ last.op = "store._scope_group, store._visible_groups"
     /\ ExactIds(probe.fact_scope)
     /\ ExactIds(probe.query_scope)) =>
        ((last.result[1] \in Range(last.result[2])) <=> probe.result)

\* C19, one direction: a fact scope whose group id is one of the visible
\* groups of the query scope is visible to is_visible as well.
C19_GroupImpliesVisible ==
    (/\ probe.called
     /\ last.op = "store._scope_group, store._visible_groups"
     /\ ExactIds(probe.fact_scope)
     /\ ExactIds(probe.query_scope)) =>
        ((last.result[1] \in Range(last.result[2])) => probe.result)

====
